---- MODULE Spec2Model ----
(***************************************************************************)
(* NodeStream of core/src/nodes/node.rs: a poll-driven event source over a *)
(* StreamMuxer.  The muxer is the environment: it resolves outbound        *)
(* attempts, delivers inbound substreams and answers close().  The         *)
(* variables below the muxer's are a record of the calls the node stream   *)
(* made, kept so that properties about calls can be stated.                *)
(***************************************************************************)
EXTENDS Integers, Sequences, FiniteSets, TLC

\* ------------------------------------------------------------- bounds
\* open_substream calls made over a run (raw handles are 1..MaxOpen)
MaxOpen == 2
\* substreams the caller holds at a time beyond which the remote opens no more
MaxHeld == 1
\* Close::poll calls over a run
MaxClosePolls == 2

\* TUserData values the caller passes
UserData == {"a", "b"}
\* "no user data": what an error or an inbound event carries
NoData == "none"

VARIABLES
    life,                 \* "alive" | "closed" (consumed by close) | "dropped"
    outbound_substreams,  \* SmallVec<[(TUserData, OutboundSubstream); 8]>
    strong,               \* strong count of the Arc<TMuxer>
    muxerDropped,         \* the muxer was released by its last holder
    substreams,           \* live Substream<TMuxer> handles held by the caller
    closeLive,            \* a Close<TMuxer> future exists
    closeRes,             \* what Close::poll last returned: none|pending|ok|err
    \* the muxer (environment)
    opened,               \* opened[h]: user_data of the open_substream that got raw handle h
    obState,              \* obState[h]: what poll_outbound answers for h
    acked,                \* is_remote_acknowledged
    muxCloseRet,          \* what the muxer's close() last answered
    \* record of calls
    destroyed,            \* destroyed[h]: destroy_outbound calls made with h
    closeCalls,           \* calls of the muxer's close primitive
    emitted,              \* OutboundSubstream events returned, in order
    cancelled,            \* handles removed by cancel_outgoing, close or drop
    last                  \* the last NodeStream / Close operation and its result

vars == <<life, outbound_substreams, strong, muxerDropped, substreams, closeLive,
          closeRes, opened, obState, acked, muxCloseRet,
          destroyed, closeCalls, emitted, cancelled, last>>

nodeVars == <<life, outbound_substreams>>
arcVars == <<strong, muxerDropped, substreams, closeLive>>
muxVars == <<opened, obState, acked, muxCloseRet>>
callVars == <<destroyed, closeCalls, emitted, cancelled>>

\* ------------------------------------------------------------- helpers
Handles == 1..MaxOpen

\* the raw handles of a pending collection, in order
RawOf(vec) == [i \in 1..Len(vec) |-> vec[i].outbound]

\* the user data of a pending collection, in order
DataOf(vec) == [i \in 1..Len(vec) |-> vec[i].user_data]

SeqSet(s) == {s[i] : i \in 1..Len(s)}

\* the entries of a collection as a bag (entry -> multiplicity)
Count(vec, e) == Cardinality({i \in 1..Len(vec) : vec[i] = e})

SameBag(v, w) ==
    /\ Len(v) = Len(w)
    /\ \A e \in SeqSet(v) \cup SeqSet(w) : Count(v, e) = Count(w, e)

\* the handles of a pending collection that the muxer has resolved successfully
ReadyIn(vec, ob) == {h \in SeqSet(RawOf(vec)) : ob[h] = "ok"}

\* SmallVec::swap_remove(n): the last element takes the place of element n
SwapRemove(vec, n) ==
    [i \in 1..(Len(vec) - 1) |-> IF i = n THEN vec[Len(vec)] ELSE vec[i]]

\* the muxer's destroy_outbound, called once per element of hs
RECURSIVE DestroyEach(_, _)
DestroyEach(d, hs) ==
    IF hs = <<>> THEN d
    ELSE DestroyEach([d EXCEPT ![Head(hs)] = @ + 1], Tail(hs))

\* The record of one call: its name, what it returned (res, ud, ret), the handle
\* the result is about (h), the muxer calls it made (inb: what poll_inbound
\* answered; polled: the handles passed to poll_outbound; destroyedNow: the handles
\* passed to destroy_outbound), the state it was called in (pre: the pending
\* collection; ready: for a poll, the pending handles the muxer had resolved
\* successfully; deferred: for a poll that follows a poll which returned an inbound
\* event, the handles that were ready in that earlier poll).
Call(name, res, ud, h, inb, polled, destroyedNow, ret) ==
    [op |-> name, res |-> res, ud |-> ud, h |-> h, inb |-> inb,
     polled |-> polled, destroyedNow |-> destroyedNow, ret |-> ret,
     pre |-> outbound_substreams,
     ready |-> IF name = "poll" THEN ReadyIn(outbound_substreams, obState) ELSE {},
     deferred |-> IF name = "poll" /\ last.op = "poll" /\ last.res = "inbound"
                  THEN last.ready ELSE {}]

\* ------------------------------------------------------------- NodeStream::poll
\* the inbound substream wrapped without cloning the Arc
InboundArrived_NoClone(vec) ==
    [res |-> "inbound", ud |-> NoData, h |-> 0, vec |-> vec,
     polled |-> <<>>, destroyedNow |-> <<>>, clones |-> 0]

\* poll_inbound answered Ready(Ok): the substream is wrapped with a clone of the Arc
InboundArrived(vec) ==
    [res |-> "inbound", ud |-> NoData, h |-> 0, vec |-> vec,
     polled |-> <<>>, destroyedNow |-> <<>>, clones |-> 1]

\* poll_inbound answered Ready(Err) and the node stream gives up its pending
\* attempts before returning the error
InboundFailed_CancelsAll(vec) ==
    [res |-> "inErr", ud |-> NoData, h |-> 0, vec |-> <<>>,
     polled |-> <<>>, destroyedNow |-> RawOf(vec), clones |-> 0]

\* poll_inbound answered Ready(Err) and the error is dropped: the call returns Pending
InboundFailed_Swallowed(vec) ==
    [res |-> "pending", ud |-> NoData, h |-> 0, vec |-> vec,
     polled |-> <<>>, destroyedNow |-> <<>>, clones |-> 0]

\* poll_inbound answered Ready(Err)
InboundFailed(vec) ==
    [res |-> "inErr", ud |-> NoData, h |-> 0, vec |-> vec,
     polled |-> <<>>, destroyedNow |-> <<>>, clones |-> 0]

\* the success branch reading the user_data at index n after swap_remove, where
\* the last element now sits
OutboundReady_SwappedData(e, rest, polled) ==
    [res |-> "outbound",
     ud |-> IF rest = <<>> THEN e.user_data ELSE rest[Len(rest)].user_data,
     h |-> e.outbound, vec |-> rest,
     polled |-> polled, destroyedNow |-> <<e.outbound>>, clones |-> 1]

\* the success branch removing one more element after swap_remove
OutboundReady_DropsNext(e, rest, polled) ==
    [res |-> "outbound", ud |-> e.user_data, h |-> e.outbound,
     vec |-> IF rest = <<>> THEN rest ELSE Tail(rest),
     polled |-> polled, destroyedNow |-> <<e.outbound>>, clones |-> 1]

\* poll_outbound answered Ready(Ok) for the removed entry e: wrap the substream with
\* a clone of the Arc, destroy the raw handle, return the event with e's user_data
OutboundReady(e, rest, polled) ==
    [res |-> "outbound", ud |-> e.user_data, h |-> e.outbound, vec |-> rest,
     polled |-> polled, destroyedNow |-> <<e.outbound>>, clones |-> 1]

\* the error branch returning without destroy_outbound
OutboundFailed_NoDestroy(e, rest, polled) ==
    [res |-> "outErr", ud |-> NoData, h |-> e.outbound, vec |-> rest,
     polled |-> polled, destroyedNow |-> <<>>, clones |-> 0]

\* poll_outbound answered Ready(Err) for the removed entry e: destroy the raw
\* handle, return the error (which carries no user_data)
OutboundFailed(e, rest, polled) ==
    [res |-> "outErr", ud |-> NoData, h |-> e.outbound, vec |-> rest,
     polled |-> polled, destroyedNow |-> <<e.outbound>>, clones |-> 0]

\* the Pending branch putting the entry back at the front of the collection
StillPending_PushFront(e, rest) == <<e>> \o rest

\* the Pending branch pushing back the raw handle with the user_data of the
\* element that swap_remove moved
StillPending_Mispaired(e, rest) ==
    Append(rest, [user_data |-> IF rest = <<>> THEN e.user_data
                                ELSE rest[Len(rest)].user_data,
                  outbound |-> e.outbound])

\* poll_outbound answered Pending for the removed entry e: push it back
StillPending(e, rest) == Append(rest, e)

\* the scan walking the collection from its first element instead of its last
ScanOutbound_Forward(vec, ob, n, polled) ==
    LET done == {i \in 1..Len(vec) : ob[vec[i].outbound] # "pending"}
    IN IF done = {}
       THEN [res |-> "pending", ud |-> NoData, h |-> 0, vec |-> vec,
             polled |-> polled \o RawOf(vec), destroyedNow |-> <<>>, clones |-> 0]
       ELSE LET i == CHOOSE k \in done : \A j \in done : k <= j
                seen == polled \o SubSeq(RawOf(vec), 1, i)
            IN IF ob[vec[i].outbound] = "ok"
               THEN OutboundReady(vec[i], SwapRemove(vec, i), seen)
               ELSE OutboundFailed(vec[i], SwapRemove(vec, i), seen)

\* the scan giving up at the first entry that is still Pending
ScanOutbound_StopsAtPending(vec, ob, n, polled) ==
    IF n = 0
    THEN [res |-> "pending", ud |-> NoData, h |-> 0, vec |-> vec,
          polled |-> polled, destroyedNow |-> <<>>, clones |-> 0]
    ELSE LET e == vec[n]
             rest == SwapRemove(vec, n)
             seen == Append(polled, e.outbound)
         IN CASE ob[e.outbound] = "ok" -> OutboundReady(e, rest, seen)
              [] ob[e.outbound] = "err" -> OutboundFailed(e, rest, seen)
              [] OTHER -> [res |-> "pending", ud |-> NoData, h |-> 0, vec |-> vec,
                           polled |-> seen, destroyedNow |-> <<>>, clones |-> 0]

\* The outbound scan of poll: for n in (0..len).rev(), swap_remove(n), poll_outbound,
\* and push back when Pending.  n counts from Len(vec) down to 1; polled collects
\* the handles passed to poll_outbound.
RECURSIVE ScanOutbound(_, _, _, _)
ScanOutbound(vec, ob, n, polled) ==
    IF n = 0
    THEN [res |-> "pending", ud |-> NoData, h |-> 0, vec |-> vec,
          polled |-> polled, destroyedNow |-> <<>>, clones |-> 0]
    ELSE LET e == vec[n]
             rest == SwapRemove(vec, n)
             r == ob[e.outbound]
             seen == Append(polled, e.outbound)
         IN CASE r = "ok" -> OutboundReady(e, rest, seen)
              [] r = "err" -> OutboundFailed(e, rest, seen)
              [] OTHER -> ScanOutbound(StillPending(e, rest), ob, n - 1, seen)

\* poll with the two halves in the other order: the outbound scan first,
\* poll_inbound only when the scan found nothing
PollResult_OutboundFirst(inb, vec, ob) ==
    LET s == ScanOutbound(vec, ob, Len(vec), <<>>)
    IN CASE s.res # "pending" -> s
         [] inb = "ok" -> InboundArrived(s.vec)
         [] inb = "err" -> InboundFailed(s.vec)
         [] OTHER -> s

\* The whole of poll: poll_inbound first, the outbound scan only when it is Pending.
PollResult(inb, vec, ob) ==
    CASE inb = "ok" -> InboundArrived(vec)
      [] inb = "err" -> InboundFailed(vec)
      [] OTHER -> ScanOutbound(vec, ob, Len(vec), <<>>)

\* ------------------------------------------------------------- cancel / drop / close
\* cancel_outgoing iterating the collection without draining it
CancelOutgoing_NoDrain(vec) ==
    [out |-> DataOf(vec), destroyedNow |-> RawOf(vec), vec |-> vec]

\* cancel_outgoing draining the collection without destroy_outbound
CancelOutgoing_NoDestroy(vec) ==
    [out |-> DataOf(vec), destroyedNow |-> <<>>, vec |-> <<>>]

\* cancel_outgoing returning the user data last entry first while destroying the
\* handles first entry first
CancelOutgoing_ReversedOut(vec) ==
    [out |-> [i \in 1..Len(vec) |-> vec[Len(vec) - i + 1].user_data],
     destroyedNow |-> RawOf(vec), vec |-> <<>>]

\* cancel_outgoing: drain(..) the collection, pushing each user_data to out and
\* destroying each raw handle, in order.
CancelOutgoing(vec) ==
    [out |-> DataOf(vec), destroyedNow |-> RawOf(vec), vec |-> <<>>]

\* a node stream with no destructor: the collection is freed, nothing is destroyed
DropImpl_Forgets(vec) ==
    [destroyedNow |-> <<>>, vec |-> <<>>]

\* Drop::drop: drain(..) the collection, destroying each raw handle.
DropImpl(vec) ==
    [destroyedNow |-> RawOf(vec), vec |-> <<>>]

\* Close::poll reporting a close that is still in progress as done
ClosePollResult_PendingAsDone(r) ==
    CASE r = "err" -> "err"
      [] OTHER -> "ok"

\* Close::poll reporting a failed close as done
ClosePollResult_SwallowsErr(r) ==
    CASE r = "ok" -> "ok"
      [] r = "err" -> "ok"
      [] OTHER -> "pending"

\* Close::poll: the muxer's answer, passed on
ClosePollResult(r) ==
    CASE r = "ok" -> "ok"
      [] r = "err" -> "err"
      [] OTHER -> "pending"

\* ------------------------------------------------------------- initial state
\* NodeStream::new
Init ==
    /\ life = "alive"
    /\ outbound_substreams = <<>>
    /\ strong = 1
    /\ muxerDropped = FALSE
    /\ substreams = 0
    /\ closeLive = FALSE
    /\ closeRes = "none"
    /\ opened = <<>>
    /\ obState = [h \in Handles |-> "pending"]
    /\ acked = FALSE
    /\ muxCloseRet = "none"
    /\ destroyed = [h \in Handles |-> 0]
    /\ closeCalls = 0
    /\ emitted = <<>>
    /\ cancelled = {}
    /\ last = [op |-> "new", res |-> "none", ud |-> NoData, h |-> 0, inb |-> "none",
               polled |-> <<>>, destroyedNow |-> <<>>, ret |-> <<>>, pre |-> <<>>,
               ready |-> {},
               deferred |-> {}]

\* releasing k holders of the Arc
Release(k) ==
    /\ strong' = strong - k
    /\ muxerDropped' = (strong - k = 0)

\* ------------------------------------------------------------- operations
\* open_substream refusing the request while another attempt is pending
OpenSubstream_RefusesWhenBusy(user_data) ==
    /\ life = "alive"
    /\ Len(opened) < MaxOpen
    /\ outbound_substreams = <<>>
    /\ LET raw == Len(opened) + 1
       IN /\ opened' = Append(opened, user_data)
          /\ outbound_substreams' =
                 Append(outbound_substreams, [user_data |-> user_data, outbound |-> raw])
          /\ last' = Call("open", "none", user_data, raw, "none", <<>>, <<>>, <<>>)
    /\ UNCHANGED <<life, arcVars, closeRes, obState, acked,
                   muxCloseRet, callVars>>

OpenSubstream(user_data) ==
    /\ life = "alive"
    /\ Len(opened) < MaxOpen
    /\ LET raw == Len(opened) + 1
       IN /\ opened' = Append(opened, user_data)
          /\ outbound_substreams' =
                 Append(outbound_substreams, [user_data |-> user_data, outbound |-> raw])
          /\ last' = Call("open", "none", user_data, raw, "none", <<>>, <<>>, <<>>)
    /\ UNCHANGED <<life, arcVars, closeRes, obState, acked,
                   muxCloseRet, callVars>>

\* is_remote_acknowledged answering from the node stream's own record (a substream
\* was obtained from the remote) instead of asking the muxer
IsRemoteAcknowledged_FromEvents ==
    /\ life = "alive"
    /\ last' = Call("ack", IF substreams > 0 THEN "true" ELSE "false", NoData, 0, "none",
                    <<>>, <<>>, <<>>)
    /\ UNCHANGED <<nodeVars, arcVars, closeRes, muxVars, callVars>>

IsRemoteAcknowledged ==
    /\ life = "alive"
    /\ last' = Call("ack", IF acked THEN "true" ELSE "false", NoData, 0, "none",
                    <<>>, <<>>, <<>>)
    /\ UNCHANGED <<nodeVars, arcVars, closeRes, muxVars, callVars>>

\* poll: inb is what poll_inbound answers in this call (an inbound substream is
\* delivered only while the caller holds fewer than MaxHeld substreams).
PollNode ==
    /\ life = "alive"
    /\ \E inb \in {"pending", "ok", "err"} :
       LET r == PollResult(inb, outbound_substreams, obState)
       IN /\ inb = "ok" => substreams < MaxHeld
          /\ outbound_substreams' = r.vec
          /\ strong' = strong + r.clones
          /\ substreams' = substreams + IF r.res \in {"inbound", "outbound"} THEN 1 ELSE 0
          /\ destroyed' = DestroyEach(destroyed, r.destroyedNow)
          /\ emitted' = IF r.res = "outbound"
                        THEN Append(emitted, [user_data |-> r.ud, outbound |-> r.h])
                        ELSE emitted
          /\ last' = Call("poll", r.res, r.ud, r.h, inb, r.polled, r.destroyedNow, <<>>)
    /\ UNCHANGED <<life, muxerDropped, closeLive, closeRes, muxVars, closeCalls,
                   cancelled>>

CancelOutgoingCall ==
    /\ life = "alive"
    /\ LET c == CancelOutgoing(outbound_substreams)
       IN /\ outbound_substreams' = c.vec
          /\ destroyed' = DestroyEach(destroyed, c.destroyedNow)
          /\ cancelled' = cancelled \cup SeqSet(c.destroyedNow)
          /\ last' = Call("cancel", "none", NoData, 0, "none", <<>>, c.destroyedNow, c.out)
    /\ UNCHANGED <<life, arcVars, closeRes, muxVars, closeCalls, emitted>>

\* close(mut self): cancel_outgoing, clone the Arc into a Close, then self goes out
\* of scope: Drop::drop runs on what is left and the node's Arc is released.
CloseNode ==
    /\ life = "alive"
    /\ LET c == CancelOutgoing(outbound_substreams)
           d == DropImpl(c.vec)
           all == c.destroyedNow \o d.destroyedNow
       IN /\ outbound_substreams' = d.vec
          /\ destroyed' = DestroyEach(destroyed, all)
          /\ cancelled' = cancelled \cup SeqSet(all)
          /\ last' = Call("close", "none", NoData, 0, "none", <<>>, all, c.out)
    /\ life' = "closed"
    /\ closeLive' = TRUE
    /\ strong' = strong + 1 - 1
    /\ UNCHANGED <<muxerDropped, substreams, closeRes, muxVars, closeCalls, emitted>>

DropNode ==
    /\ life = "alive"
    /\ LET d == DropImpl(outbound_substreams)
       IN /\ outbound_substreams' = d.vec
          /\ destroyed' = DestroyEach(destroyed, d.destroyedNow)
          /\ cancelled' = cancelled \cup SeqSet(d.destroyedNow)
          /\ last' = Call("drop", "none", NoData, 0, "none", <<>>, d.destroyedNow, <<>>)
    /\ life' = "dropped"
    /\ Release(1)
    /\ UNCHANGED <<substreams, closeLive, closeRes, muxVars, closeCalls, emitted>>

\* Close::poll, called until it completes: r is what the muxer's close answers.
ClosePoll ==
    /\ closeLive
    /\ closeRes \in {"none", "pending"}
    /\ closeCalls < MaxClosePolls
    /\ \E r \in {"pending", "ok", "err"} :
          /\ muxCloseRet' = r
          /\ closeRes' = ClosePollResult(r)
          /\ last' = Call("closepoll", ClosePollResult(r), NoData, 0, "none",
                          <<>>, <<>>, <<>>)
    /\ closeCalls' = closeCalls + 1
    /\ UNCHANGED <<nodeVars, arcVars, opened, obState, acked,
                   destroyed, emitted, cancelled>>

\* the caller lets go of a substream or of the Close future
DropSubstream ==
    /\ substreams > 0
    /\ substreams' = substreams - 1
    /\ Release(1)
    /\ UNCHANGED <<nodeVars, closeLive, closeRes, muxVars, callVars, last>>

DropClose ==
    /\ closeLive
    /\ closeLive' = FALSE
    /\ Release(1)
    /\ UNCHANGED <<nodeVars, substreams, closeRes, muxVars, callVars, last>>

\* ------------------------------------------------------------- the muxer
\* The muxer resolves an attempt that is still open (not yet destroyed): from then
\* on poll_outbound answers Ready(Ok) or Ready(Err) for it.
OutboundResolves ==
    /\ ~muxerDropped
    /\ \E h \in 1..Len(opened), r \in {"ok", "err"} :
          /\ obState[h] = "pending"
          /\ destroyed[h] = 0
          /\ obState' = [obState EXCEPT ![h] = r]
    /\ UNCHANGED <<nodeVars, arcVars, closeRes, opened, acked,
                   muxCloseRet, callVars, last>>

\* The remote shows its first sign of activity.
RemoteAcknowledges ==
    /\ ~muxerDropped
    /\ ~acked
    /\ acked' = TRUE
    /\ UNCHANGED <<nodeVars, arcVars, closeRes, opened, obState, muxCloseRet, callVars, last>>

Next ==
    \/ \E user_data \in UserData : OpenSubstream(user_data)
    \/ IsRemoteAcknowledged
    \/ PollNode
    \/ CancelOutgoingCall
    \/ CloseNode
    \/ DropNode
    \/ ClosePoll
    \/ DropSubstream
    \/ DropClose
    \/ OutboundResolves
    \/ RemoteAcknowledges

Spec == Init /\ [][Next]_vars

\* the caller keeps polling: a poll that stays possible is eventually made
FairSpec == Spec /\ WF_vars(PollNode)


\* ------------------------------------------------------------- properties
PendingHandles == SeqSet(RawOf(outbound_substreams))

\* C1: inbound takes priority over outbound within one poll.  A poll in which
\* poll_inbound answers Ready(Ok) returns the inbound event, passes no handle to
\* poll_outbound or destroy_outbound and leaves the pending collection as it was,
\* whatever the muxer has resolved.  The poll that follows such a poll, with
\* poll_inbound now Pending, returns the OutboundSubstream event of the attempt
\* that was ready in the first one, with the user_data of its open_substream
\* (that attempt being the only pending one the muxer has resolved).
C1_InboundBeforeOutbound ==
    [][PollNode =>
        /\ last'.inb = "ok" =>
              /\ last'.res = "inbound"
              /\ last'.polled = <<>>
              /\ last'.destroyedNow = <<>>
              /\ destroyed' = destroyed
              /\ outbound_substreams' = outbound_substreams
        /\ (last.op = "poll" /\ last.res = "inbound" /\ last'.inb = "pending") =>
              \A h \in last.ready :
                  (\A g \in PendingHandles \ {h} : obState[g] = "pending") =>
                      /\ last'.res = "outbound"
                      /\ last'.h = h
                      /\ last'.ud = opened[h]
                      /\ h \notin SeqSet(RawOf(outbound_substreams'))]_vars

\* a poll returned the outbound event of an attempt that was already ready when
\* the poll before it returned an inbound event
C1_Witness ==
    /\ last.op = "poll"
    /\ last.res = "outbound"
    /\ last.h \in last.deferred

\* handles for which an OutboundSubstream event was returned
EmittedHandles == {emitted[i].outbound : i \in 1..Len(emitted)}

OpenedHandles == 1..Len(opened)

\* the pending entry of handle h, as open_substream made it
EntryOf(h) == [user_data |-> opened[h], outbound |-> h]

\* C2: the OutboundSubstream events are exactly the attempts the muxer resolved
\* successfully and that were not removed by cancel_outgoing, close or drop first.
\* Every event is for an opened attempt the muxer resolved successfully, carries
\* the user_data its open_substream was given, and no attempt gets two events.
\* Every poll in which poll_inbound is Pending and some pending attempt is
\* resolved reports one of them and removes its entry, so repeated polls run the
\* resolved attempts down; and when a poll returns Pending the number of events
\* equals the number of successfully resolved attempts that were not cancelled.
C2_EventsAreResolved ==
    \A i \in 1..Len(emitted) :
        /\ emitted[i].outbound \in OpenedHandles
        /\ emitted[i].user_data = opened[emitted[i].outbound]
        /\ obState[emitted[i].outbound] = "ok"
        /\ emitted[i].outbound \notin cancelled
        /\ emitted[i].outbound \notin PendingHandles
        /\ \A j \in 1..Len(emitted) : emitted[j].outbound = emitted[i].outbound => j = i

C2_PollProgress ==
    PollNode =>
        /\ last'.res = "pending" =>
              Len(emitted') =
                  Cardinality({h \in OpenedHandles :
                                  obState[h] = "ok" /\ h \notin cancelled})
        /\ (last'.inb = "pending" /\ \E h \in PendingHandles : obState[h] # "pending") =>
              /\ last'.res \in {"outbound", "outErr"}
              /\ Len(outbound_substreams') = Len(outbound_substreams) - 1
        /\ last'.res = "outbound" =>
              /\ last'.h \in PendingHandles
              /\ obState[last'.h] = "ok"
              /\ last'.ud = opened[last'.h]
              /\ emitted' = Append(emitted, EntryOf(last'.h))
        /\ last'.res # "outbound" => emitted' = emitted

C3_DestroyedOnce ==
    /\ \A h \in Handles : destroyed[h] <= 1
    /\ \A h \in Handles \ OpenedHandles : destroyed[h] = 0
    /\ life # "alive" => \A h \in OpenedHandles : destroyed[h] = 1
    /\ \A i \in 1..Len(outbound_substreams) :
          /\ outbound_substreams[i].outbound \in OpenedHandles
          /\ destroyed[outbound_substreams[i].outbound] = 0
          /\ \A j \in 1..Len(outbound_substreams) :
                outbound_substreams[j].outbound = outbound_substreams[i].outbound => j = i
    /\ last.op = "poll" =>
          \A h \in SeqSet(last.polled) :
              destroyed[h] = IF h \in SeqSet(last.destroyedNow) THEN 1 ELSE 0
    /\ life = "alive" => \A h \in OpenedHandles : destroyed[h] = 0 <=> h \in PendingHandles

\* close() ran on a node stream that had one attempt pending and one already
\* reported: both handles are destroyed once
C3_Witness ==
    /\ life = "closed"
    /\ last.op = "close"
    /\ Len(last.pre) = 1
    /\ Len(emitted) = 1
    /\ \A h \in OpenedHandles : destroyed[h] = 1

\* C4: cancel_outgoing empties the pending collection and destroys each handle it
\* removed exactly once; the poll that follows it returns no outbound event or
\* outbound error and calls poll_outbound for nothing; and no later poll polls a
\* cancelled handle or returns an event for one, resolved or not.
C4_CancelState ==
    /\ last.op = "cancel" =>
          /\ outbound_substreams = <<>>
          /\ last.destroyedNow = RawOf(last.pre)
          /\ \A h \in SeqSet(RawOf(last.pre)) : destroyed[h] = 1 /\ h \in cancelled
    /\ \A h \in cancelled :
          /\ destroyed[h] = 1
          /\ h \notin EmittedHandles
          /\ h \notin PendingHandles
          /\ last.op = "poll" => h \notin SeqSet(last.polled) /\ last.h # h

C4_PollAfterCancel ==
    (PollNode /\ last.op = "cancel") =>
        /\ last'.res \in {"inbound", "inErr", "pending"}
        /\ last'.polled = <<>>
        /\ last'.destroyedNow = <<>>
        /\ emitted' = emitted
        /\ destroyed' = destroyed

C4_CancelThenPoll ==
    /\ []C4_CancelState
    /\ [][C4_PollAfterCancel]_vars

\* a poll of a still-living node stream whose only attempts were cancelled after
\* the muxer had resolved one of them successfully: no event was ever returned
C4_Witness ==
    /\ life = "alive"
    /\ last.op = "poll"
    /\ last.pre = <<>>
    /\ emitted = <<>>
    /\ cancelled = OpenedHandles
    /\ \E h \in cancelled : obState[h] = "ok"

\* C5: dropping a node stream with K pending attempts makes exactly K
\* destroy_outbound calls, one per pending handle, and no call of the muxer's
\* close primitive; no Close future comes out of it.
C5_DropDestroysPending ==
    last.op = "drop" =>
        /\ life = "dropped"
        /\ Len(last.destroyedNow) = Len(last.pre)
        /\ \A i \in 1..Len(last.pre) : last.destroyedNow[i] = last.pre[i].outbound
        /\ \A h \in SeqSet(RawOf(last.pre)) : destroyed[h] = 1
        /\ outbound_substreams = <<>>
        /\ closeCalls = 0
        /\ muxCloseRet = "none"
        /\ ~closeLive

\* a node stream was dropped with two attempts pending
C5_Witness ==
    /\ last.op = "drop"
    /\ Len(last.pre) = 2
    /\ Len(last.destroyedNow) = 2

\* C6: close() returns the user_data of exactly the attempts pending at the call,
\* each as given to open_substream, destroys each of their handles and leaves
\* nothing pending; the Close future completes with success exactly when the
\* muxer's close answered success and with an error exactly when it answered one.
C6_CloseReturnsPending ==
    /\ last.op = "close" =>
          /\ life = "closed"
          /\ outbound_substreams = <<>>
          /\ Len(last.ret) = Len(last.pre)
          /\ \A i \in 1..Len(last.pre) :
                /\ last.ret[i] = last.pre[i].user_data
                /\ last.ret[i] = opened[last.pre[i].outbound]
                /\ destroyed[last.pre[i].outbound] = 1
    /\ closeRes = "ok" <=> muxCloseRet = "ok"
    /\ closeRes = "err" <=> muxCloseRet = "err"
    /\ closeRes = "pending" <=> muxCloseRet = "pending"
    /\ closeRes # "none" => life = "closed" /\ closeCalls > 0

\* a node stream whose two attempts were still pending was closed and its Close
\* future, polled, completed with the muxer's error
C6_Witness ==
    /\ life = "closed"
    /\ last.op = "closepoll"
    /\ closeRes = "err"
    /\ Cardinality(cancelled) = 2
    /\ \A h \in cancelled : obState[h] = "pending"

C8_OutcomeCarriesUserData ==
    (last.op = "poll" /\ last.res \in {"outbound", "outErr"}) =>
        last.ud = opened[last.h]

\* C9: a poll returns one result and removes at most one pending entry, the one
\* its outbound event or outbound error is about; every other entry, resolved or
\* not, is still pending after it, and a resolved pending attempt stays pending
\* and resolved until a poll reports it or it is cancelled.
C9_PollState ==
    last.op = "poll" =>
        /\ last.res \in {"inbound", "inErr", "outbound", "outErr", "pending"}
        /\ IF last.res \in {"outbound", "outErr"}
           THEN /\ SameBag(Append(outbound_substreams, EntryOf(last.h)), last.pre)
                /\ last.destroyedNow = <<last.h>>
           ELSE /\ SameBag(outbound_substreams, last.pre)
                /\ last.destroyedNow = <<>>
        /\ last.ready \ {last.h} \subseteq PendingHandles

C9_PollStep ==
    /\ PollNode =>
          /\ Len(emitted') = Len(emitted) + (IF last'.res = "outbound" THEN 1 ELSE 0)
          /\ substreams' =
                substreams + (IF last'.res \in {"inbound", "outbound"} THEN 1 ELSE 0)
          /\ Len(outbound_substreams') >= Len(outbound_substreams) - 1
    /\ \A h \in Handles :
          (h \in PendingHandles /\ obState[h] \in {"ok", "err"}) =>
              \/ h \in SeqSet(RawOf(outbound_substreams')) /\ obState'[h] = obState[h]
              \/ h \in cancelled'
              \/ PollNode /\ last'.h = h

C9_OneEventPerPoll ==
    /\ []C9_PollState
    /\ [][C9_PollStep]_vars

\* a poll returned the event of one of two attempts that were both ready: the
\* other is still pending
C9_Witness ==
    /\ last.op = "poll"
    /\ last.res = "outbound"
    /\ Cardinality(last.ready) = 2
    /\ Len(outbound_substreams) = 1

\* C10: a poll that returns the error of a pending attempt has destroyed that
\* attempt's handle and removed its entry, and nothing else: every other entry is
\* still pending with its own user_data and undestroyed handle, and the node
\* stream is alive.
C10_OutboundErrorIsLocal ==
    (last.op = "poll" /\ last.res = "outErr") =>
        /\ life = "alive"
        /\ obState[last.h] = "err"
        /\ last.h \in SeqSet(RawOf(last.pre))
        /\ last.h \notin PendingHandles
        /\ last.destroyedNow = <<last.h>>
        /\ destroyed[last.h] = 1
        /\ SameBag(Append(outbound_substreams, EntryOf(last.h)), last.pre)
        /\ \A i \in 1..Len(outbound_substreams) :
              /\ outbound_substreams[i] = EntryOf(outbound_substreams[i].outbound)
              /\ destroyed[outbound_substreams[i].outbound] = 0

\* after a poll returned the error of one attempt, a later poll returned the
\* outbound event of another
C10_Witness ==
    /\ last.op = "poll"
    /\ last.res = "outbound"
    /\ \E h \in OpenedHandles :
          obState[h] = "err" /\ destroyed[h] = 1 /\ h \notin cancelled

C12_Paired ==
    \A i \in 1..Len(outbound_substreams) :
        outbound_substreams[i] = EntryOf(outbound_substreams[i].outbound)

C12_ScanStep ==
    /\ PollNode =>
          \A h \in PendingHandles :
              ( /\ last'.inb = "pending"
                /\ Len(outbound_substreams) >= 2
                /\ obState[h] = "ok"
                /\ \A g \in PendingHandles \ {h} : obState[g] = "pending" ) =>
                    /\ last'.res = "outbound"
                    /\ last'.h = h
                    /\ last'.ud = opened[h]
                    /\ SeqSet(RawOf(outbound_substreams')) = PendingHandles \ {h}
                    /\ Len(outbound_substreams') = Len(outbound_substreams) - 1
    /\ CancelOutgoingCall =>
          /\ Len(last'.ret) = Len(outbound_substreams)
          /\ Len(last'.destroyedNow) = Len(outbound_substreams)
          /\ SeqSet(last'.destroyedNow) = PendingHandles
          /\ \A i \in 1..Len(last'.ret) : last'.ret[i] = opened[last'.destroyedNow[i]]
          /\ outbound_substreams' = <<>>

C12_PairingPreserved == []C12_Paired /\ [][C12_ScanStep]_vars

\* "a" then "b" were opened, the muxer resolved "b" only, a poll returned the event
\* of "b" and the cancel_outgoing that followed returned ["a"]
C12_Witness ==
    /\ opened = <<"a", "b">>
    /\ emitted = <<[user_data |-> "b", outbound |-> 2]>>
    /\ last.op = "cancel"
    /\ last.ret = <<"a">>
    /\ outbound_substreams = <<>>

\* C13 (as stated): a pending attempt the muxer has resolved is eventually
\* reported (or removed by cancel_outgoing, close or drop), whatever poll_inbound
\* answers, as long as the caller keeps polling.
C13_NoStarvation ==
    \A h \in Handles :
        (h \in PendingHandles /\ obState[h] # "pending") ~> (h \notin PendingHandles)

\* C13 (amended): a poll in which poll_inbound answers Ready, with an arrival or
\* with an error, passes no attempt to poll_outbound: the attempts the muxer has
\* resolved stay pending, untouched, for a later poll.  A poll in which
\* poll_inbound answers Pending while some pending attempt is resolved reports one
\* resolved attempt, event or error, and removes it.
C13_ReportedWhenInboundPending ==
    [][PollNode =>
          LET resolved == {h \in PendingHandles : obState[h] # "pending"}
          IN /\ last'.inb # "pending" =>
                   /\ last'.res \in {"inbound", "inErr"}
                   /\ last'.polled = <<>>
                   /\ outbound_substreams' = outbound_substreams
                   /\ resolved \subseteq SeqSet(RawOf(outbound_substreams'))
             /\ (last'.inb = "pending" /\ resolved # {}) =>
                   /\ last'.res \in {"outbound", "outErr"}
                   /\ last'.h \in resolved
                   /\ SeqSet(RawOf(outbound_substreams')) = PendingHandles \ {last'.h}]_vars

\* two polls in a row found poll_inbound Ready, an arrival then an error, while an
\* attempt the muxer had resolved was pending; it is still pending
C13_Witness ==
    /\ last.op = "poll"
    /\ last.res = "inErr"
    /\ last.deferred # {}
    /\ last.deferred \subseteq PendingHandles
    /\ \A h \in last.deferred : obState[h] = "ok"

\* C14 (as stated): outbound events come out in the order in which the muxer
\* resolved the attempts.  In particular: when an attempt was already resolved at
\* the time of the preceding poll and is still pending, the attempt a poll reports
\* is not one the muxer resolved only after that preceding poll.
C14_ResolutionOrder ==
    [][PollNode =>
          ( ( /\ last.op = "poll"
              /\ last'.res = "outbound"
              /\ last.ready \cap PendingHandles # {} ) => last'.h \in last.ready )]_vars

\* C14 (amended): the outbound events come out in the order in which the scan of
\* poll meets resolved attempts, which is by position in the pending collection
\* and not by time of resolution.  The attempt a poll reports, event or error, is
\* the resolved attempt nearest the end of the collection: the entries after it are
\* unresolved and were passed to poll_outbound before it, last entry first, and no
\* entry before it was polled.
C14_ScanOrder ==
    [][(PollNode /\ last'.res \in {"outbound", "outErr"}) =>
              \E i \in 1..Len(outbound_substreams) :
                  /\ outbound_substreams[i].outbound = last'.h
                  /\ obState[last'.h] # "pending"
                  /\ \A j \in (i + 1)..Len(outbound_substreams) :
                        obState[outbound_substreams[j].outbound] = "pending"
                  /\ Len(last'.polled) = Len(outbound_substreams) - i + 1
                  /\ \A k \in 1..Len(last'.polled) :
                        last'.polled[k] =
                            outbound_substreams[Len(outbound_substreams) - k + 1].outbound]_vars

\* an attempt was resolved when a poll returned an inbound event; the next poll
\* returned the event of another attempt, resolved since, and the first one is
\* still pending
C14_Witness ==
    /\ last.op = "poll"
    /\ last.res = "outbound"
    /\ last.deferred # {}
    /\ last.h \notin last.deferred
    /\ last.deferred \subseteq PendingHandles

\* C15: cancel_outgoing removes every pending entry and returns their user_data in
\* removal order: the list it returns has one element per entry that was pending,
\* the i-th being the user_data of the i-th entry drained, whose handle is the
\* i-th handle passed to destroy_outbound; every handle is destroyed once more and
\* the collection is left empty.  Called with nothing pending it returns the empty
\* list, calls destroy_outbound for no handle and changes no state.
C15_CancelDrains ==
    [][CancelOutgoingCall =>
          /\ Len(last'.ret) = Len(outbound_substreams)
          /\ Len(last'.destroyedNow) = Len(outbound_substreams)
          /\ \A i \in 1..Len(outbound_substreams) :
                /\ last'.ret[i] = outbound_substreams[i].user_data
                /\ last'.destroyedNow[i] = outbound_substreams[i].outbound
          /\ \A u \in UserData :
                Cardinality({i \in 1..Len(last'.ret) : last'.ret[i] = u}) =
                    Cardinality({i \in 1..Len(outbound_substreams) :
                                    outbound_substreams[i].user_data = u})
          /\ \A h \in Handles :
                destroyed'[h] = destroyed[h] + (IF h \in PendingHandles THEN 1 ELSE 0)
          /\ outbound_substreams' = <<>>
          /\ outbound_substreams = <<>> =>
                /\ last'.ret = <<>>
                /\ last'.destroyedNow = <<>>
                /\ UNCHANGED <<nodeVars, arcVars, closeRes, muxVars, callVars>>]_vars

\* a cancel_outgoing removed two attempts with different user_data and the
\* cancel_outgoing that followed, with nothing pending, returned the empty list
C15_Witness ==
    /\ last.op = "cancel"
    /\ last.pre = <<>>
    /\ last.ret = <<>>
    /\ last.destroyedNow = <<>>
    /\ cancelled = {1, 2}
    /\ opened[1] # opened[2]
    /\ destroyed[1] = 1
    /\ destroyed[2] = 1

\* C16: a poll in which poll_inbound answers Err returns that error at once: it
\* passes no handle to poll_outbound or destroy_outbound and leaves the pending
\* collection, the destroy counts, the events returned so far and the holders of
\* the muxer as they were, and the node stream stays usable.  The error ends that
\* call only: in the poll that follows it, an arrival reported by poll_inbound is
\* returned as an inbound event, and with poll_inbound Pending the one pending
\* attempt the muxer has resolved successfully is returned as its
\* OutboundSubstream event.
C16_InboundErrorIsLocal ==
    [][PollNode =>
          /\ last'.inb = "err" =>
                /\ last'.res = "inErr"
                /\ last'.polled = <<>>
                /\ last'.destroyedNow = <<>>
                /\ UNCHANGED <<nodeVars, arcVars, closeRes, muxVars, callVars>>
          /\ (last.op = "poll" /\ last.res = "inErr") =>
                /\ outbound_substreams = last.pre
                /\ last'.inb = "ok" => last'.res = "inbound"
                /\ \A h \in PendingHandles :
                      ( /\ last'.inb = "pending"
                        /\ obState[h] = "ok"
                        /\ \A g \in PendingHandles \ {h} : obState[g] = "pending" ) =>
                            (last'.res = "outbound" /\ last'.h = h /\ last'.ud = opened[h])]_vars

\* a poll returned the inbound error while two attempts were pending, one of them
\* resolved: both are still pending, nothing was polled or destroyed
C16_Witness ==
    /\ last.op = "poll"
    /\ last.res = "inErr"
    /\ Len(last.pre) = 2
    /\ last.ready # {}
    /\ outbound_substreams = last.pre
    /\ life = "alive"
    /\ \A h \in PendingHandles : destroyed[h] = 0

\* C17: the muxer's close primitive is called by Close::poll and by nothing else.
\* Each Close::poll makes exactly one call of it and returns what it answered,
\* Pending, success or error, touching nothing else; open_substream,
\* is_remote_acknowledged, poll, cancel_outgoing, close() and drop make no call of
\* it; and once Close::poll has returned success or an error the Close future is
\* done: its result stays and no further call of the close primitive is made.
C17_CloseOnlyByClosePoll ==
    [][/\ ClosePoll =>
             /\ closeCalls' = closeCalls + 1
             /\ closeRes' = muxCloseRet'
             /\ last'.res = muxCloseRet'
             /\ UNCHANGED <<nodeVars, arcVars, opened, obState, acked,
                            destroyed, emitted, cancelled>>
       /\ (closeCalls' # closeCalls \/ muxCloseRet' # muxCloseRet) =>
             /\ last'.op = "closepoll"
             /\ closeLive
             /\ closeCalls' = closeCalls + 1
       /\ ( \/ \E user_data \in UserData : OpenSubstream(user_data)
            \/ IsRemoteAcknowledged
            \/ PollNode
            \/ CancelOutgoingCall
            \/ CloseNode
            \/ DropNode ) => (closeCalls' = closeCalls /\ muxCloseRet' = muxCloseRet)
       /\ closeRes \in {"ok", "err"} =>
             (closeRes' = closeRes /\ closeCalls' = closeCalls)]_vars

\* the Close future was polled twice: the muxer's close answered Pending, then
\* success, and Close::poll returned each answer
C17_Witness ==
    /\ last.op = "closepoll"
    /\ last.res = "ok"
    /\ closeCalls = 2
    /\ closeRes = "ok"
    /\ muxCloseRet = "ok"

\* C18: open_substream always succeeds at once.  It makes exactly one open_outbound
\* call, which yields a raw handle never given before, and appends exactly one
\* entry, (user_data, that handle), to the pending collection: the collection
\* grows by one and every entry it held stays where it was.  It calls neither
\* poll_inbound, poll_outbound nor destroy_outbound and changes nothing else.  It
\* is never refused because of how many attempts are pending: a live node stream
\* accepts it whatever the collection holds (the only limit is the number of
\* open_substream calls made over a run, MaxOpen).
C18_OpenAccepted ==
    (life = "alive" /\ Len(opened) < MaxOpen) =>
        \A user_data \in UserData : ENABLED OpenSubstream(user_data)

C18_OpenStep ==
    \A user_data \in UserData :
        OpenSubstream(user_data) =>
            /\ opened' = Append(opened, user_data)
            /\ last'.h = Len(opened) + 1
            /\ last'.h \notin PendingHandles
            /\ destroyed[last'.h] = 0
            /\ outbound_substreams' =
                   Append(outbound_substreams,
                          [user_data |-> user_data, outbound |-> last'.h])
            /\ Len(outbound_substreams') = Len(outbound_substreams) + 1
            /\ \A i \in 1..Len(outbound_substreams) :
                  outbound_substreams'[i] = outbound_substreams[i]
            /\ last'.inb = "none"
            /\ last'.polled = <<>>
            /\ last'.destroyedNow = <<>>
            /\ UNCHANGED <<life, arcVars, closeRes, obState, acked, muxCloseRet, callVars>>

C18_OpenAlwaysSucceeds == []C18_OpenAccepted /\ [][C18_OpenStep]_vars

\* a second attempt was opened while the first was still pending: the collection
\* holds the first entry, unchanged, then the new one
C18_Witness ==
    /\ last.op = "open"
    /\ Len(last.pre) = 1
    /\ Len(outbound_substreams) = 2
    /\ outbound_substreams[1] = last.pre[1]
    /\ outbound_substreams[2] = [user_data |-> last.ud, outbound |-> last.h]
    /\ last.h = 2

\* C19: is_remote_acknowledged is a pure delegation.  In every state it returns
\* the flag the muxer holds at the moment of the call, also when the flag changed
\* since an earlier call; it makes no poll_inbound, poll_outbound or
\* destroy_outbound call and changes neither the pending collection nor anything
\* of the muxer or of its holders.
C19_AckAnswer ==
    last.op = "ack" => (last.res \in {"true", "false"} /\ (last.res = "true" => acked))

C19_AckStep ==
    IsRemoteAcknowledged =>
        /\ last'.res = (IF acked THEN "true" ELSE "false")
        /\ last'.inb = "none"
        /\ last'.polled = <<>>
        /\ last'.destroyedNow = <<>>
        /\ UNCHANGED <<nodeVars, arcVars, closeRes, muxVars, callVars>>

C19_AckIsDelegation == []C19_AckAnswer /\ [][C19_AckStep]_vars

\* with two attempts pending, one of them resolved, the remote has acknowledged
\* and is_remote_acknowledged returned true; both attempts are still pending
C19_Witness ==
    /\ last.op = "ack"
    /\ last.res = "true"
    /\ acked
    /\ Len(outbound_substreams) = 2
    /\ outbound_substreams = last.pre
    /\ \E h \in PendingHandles : obState[h] = "ok"

\* C20: within one poll no pending attempt is passed to poll_outbound twice and
\* none is skipped: the handles polled are those of the collection as it was at
\* the call, last entry first, one call each, up to the entry whose result the
\* poll returns.  A poll that returns Pending has polled every pending attempt
\* exactly once, calls destroy_outbound for none and leaves the collection with
\* the same (user_data, handle) pairs, each as many times as before.
C20_ScanVisitsEachOnce ==
    last.op = "poll" =>
        /\ Len(last.polled) <= Len(last.pre)
        /\ \A k \in 1..Len(last.polled) :
              last.polled[k] = last.pre[Len(last.pre) - k + 1].outbound
        /\ \A j, k \in 1..Len(last.polled) : last.polled[j] = last.polled[k] => j = k
        /\ last.res \in {"outbound", "outErr"} =>
              last.polled[Len(last.polled)] = last.h
        /\ last.res = "pending" =>
              /\ Len(last.polled) = Len(last.pre)
              /\ SeqSet(last.polled) = SeqSet(RawOf(last.pre))
              /\ last.destroyedNow = <<>>
              /\ SameBag(outbound_substreams, last.pre)
              /\ \A h \in PendingHandles : destroyed[h] = 0

\* a poll found poll_inbound Pending and both pending attempts unresolved: it
\* polled each of them and returned Pending
C20_Witness ==
    /\ last.op = "poll"
    /\ last.inb = "pending"
    /\ last.res = "pending"
    /\ Len(last.pre) = 2
    /\ Len(last.polled) = 2
    /\ outbound_substreams # last.pre

====
